---- MODULE Spec2Model ----
(***************************************************************************)
(* Crash analysis pipeline of the Crashlytics MCP server: CrashProcessor   *)
(* (crash-processor.ts) and ImpactAnalyzer (impact-analyzer.ts).           *)
(*                                                                         *)
(* A JavaScript string is a TLA+ string.  A property that is absent from a *)
(* row (undefined) is the value ABSENT, which no program string equals.    *)
(* A behaviour is one call on a constructed processor: the initial state   *)
(* holds the baseline given to the constructor and the arguments of the    *)
(* call, and the action of the called operation records what it returned   *)
(* or raised (Spec).  SpecSequence makes several calls in turn on one      *)
(* processor; SpecServer is the CallTool request handler of                *)
(* CrashlyticsServer (index.ts) with its initialization and its queries.   *)
(***************************************************************************)
EXTENDS Integers, Sequences, FiniteSets, TLC

VARIABLES
    totalUsers,   \* ImpactAnalyzer.totalUsers, set by the constructor
    op,           \* the operation called
    input,        \* its arguments
    pc,           \* "call" before the operation has run, "done" after
    output,       \* the value it returned
    raised,       \* the error it raised to the caller, or "none"
    crashes,      \* the caller's array that the operation sorts in place
    history,      \* the calls made on the processor so far, with their results
    environment,    \* process.env and the service account key, as initialize() finds them
    bigQueryClient, \* CrashlyticsServer.bigQueryClient: "null" or "set"
    crashProcessor, \* CrashlyticsServer.crashProcessor: "null" or "set"
    requests,       \* the CallTool requests: where each handler stands, and its outcome
    connection      \* the connection tests started, and whether one has succeeded

processorVars == <<totalUsers, op, input, pc, output, raised, crashes, history>>
serverVars == <<environment, bigQueryClient, crashProcessor, requests, connection>>
vars == <<totalUsers, op, input, pc, output, raised, crashes, history,
          environment, bigQueryClient, crashProcessor, requests, connection>>

(***************************************************************************)
(* Bounds of the model.                                                    *)
(***************************************************************************)
MaxRows == 3      \* longest row sequence given to processCrashRows
MaxList == 3      \* longest summary list given to sortByImpactAndFrequency
MaxDays == 3      \* longest crashFreeCounts given to processTrendAnalysis
MaxStats == 3     \* longest freely chosen crashStats given to processTrendAnalysis
MaxKeys == 12     \* most distinct grouping keys in crashStats
MaxCalls == 3     \* most calls made in turn on one processor
MaxRequests == 2  \* most CallTool requests the server receives

(***************************************************************************)
(* JavaScript values.                                                      *)
(***************************************************************************)
ABSENT == "\\undefined"

\* A numeric property that is absent from a row (undefined); no count, rate
\* or size of a row is negative.
ABSENT_NUM == -1

\* ToBoolean of a string-or-undefined value: undefined and "" are falsy.
Truthy(v) == v # ABSENT /\ v # ""

\* String(v), as a template literal converts an interpolated value.
ToStr(v) == IF v = ABSENT THEN "undefined" ELSE v

\* s.charAt(i - 1)
CharAt(s, i) == SubSeq(s, i, i)

\* s.substring(0, n)
Substring0(s, n) == IF Len(s) <= n THEN s ELSE SubSeq(s, 1, n)

\* s.split('.').pop(): the text after the last '.', the whole of s if none.
SplitPop(s) ==
    LET dots == {i \in 1..Len(s) : CharAt(s, i) = "."}
        last == IF dots = {} THEN 0
                ELSE CHOOSE i \in dots : \A j \in dots : j <= i
    IN  IF last = Len(s) THEN "" ELSE SubSeq(s, last + 1, Len(s))

(***************************************************************************)
(* ImpactAnalyzer.calculateImpactLevel                                     *)
(***************************************************************************)
\* (affectedUsers / totalUsers) * 100 > k and >= k in IEEE-754 arithmetic,
\* for integer arguments and k > 0.  A zero divisor gives Infinity for a
\* positive dividend and NaN for a zero one; NaN compares false.
\* Mutant: the percentage threshold is inclusive.
PctGT_Inclusive(affectedUsers, total, k) ==
    IF total > 0 THEN affectedUsers * 100 >= k * total
    ELSE IF total < 0 THEN affectedUsers * 100 =< k * total
    ELSE affectedUsers > 0

PctGT(affectedUsers, total, k) ==
    IF total > 0 THEN affectedUsers * 100 > k * total
    ELSE IF total < 0 THEN affectedUsers * 100 < k * total
    ELSE affectedUsers > 0

PctGE(affectedUsers, total, k) ==
    IF total > 0 THEN affectedUsers * 100 >= k * total
    ELSE IF total < 0 THEN affectedUsers * 100 =< k * total
    ELSE affectedUsers > 0

calculateImpactLevel(total, affectedUsers, occurrences, isFatal) ==
    IF isFatal
    THEN IF affectedUsers > 100 \/ PctGT(affectedUsers, total, 5) THEN "high"
         ELSE IF affectedUsers >= 10 \/ PctGE(affectedUsers, total, 1) THEN "medium"
         ELSE "low"
    ELSE IF affectedUsers > 500 \/ PctGT(affectedUsers, total, 10) \/ occurrences > 1000
         THEN "high"
         ELSE IF affectedUsers >= 50 \/ PctGE(affectedUsers, total, 2) \/ occurrences >= 100
         THEN "medium"
         ELSE "low"

(***************************************************************************)
(* ImpactAnalyzer.sortByImpactAndFrequency                                 *)
(***************************************************************************)
impactWeight(level) ==
    CASE level = "high" -> 3 [] level = "medium" -> 2 [] level = "low" -> 1

\* Mutant: the tie-break is by occurrence count ascending.
compareCrashes_Ascending(a, b) ==
    LET impactDiff == impactWeight(b.impact) - impactWeight(a.impact)
    IN  IF impactDiff # 0 THEN impactDiff ELSE a.occurrences - b.occurrences

\* The comparator handed to Array.prototype.sort.
compareCrashes(a, b) ==
    LET impactDiff == impactWeight(b.impact) - impactWeight(a.impact)
    IN  IF impactDiff # 0 THEN impactDiff ELSE b.occurrences - a.occurrences

\* Mutant: an unstable sort, an element goes before the elements it ties with.
InsertCrash_Unstable(sorted, x) ==
    LET p == Cardinality({i \in 1..Len(sorted) : compareCrashes(sorted[i], x) < 0})
    IN  SubSeq(sorted, 1, p) \o <<x>> \o SubSeq(sorted, p + 1, Len(sorted))

\* Array.prototype.sort is stable (ECMAScript 2019, Node.js 18+): an element
\* goes behind every element that does not compare greater than it.
InsertCrash(sorted, x) ==
    LET p == Cardinality({i \in 1..Len(sorted) : compareCrashes(sorted[i], x) <= 0})
    IN  SubSeq(sorted, 1, p) \o <<x>> \o SubSeq(sorted, p + 1, Len(sorted))

RECURSIVE sortByImpactAndFrequency(_)
sortByImpactAndFrequency(list) ==
    IF list = <<>> THEN <<>>
    ELSE InsertCrash(sortByImpactAndFrequency(SubSeq(list, 1, Len(list) - 1)),
                     list[Len(list)])

(***************************************************************************)
(* ImpactAnalyzer.generateFixSuggestionContext                             *)
(***************************************************************************)
\* s.includes(sub)
Includes(s, sub) ==
    \E i \in 1..(Len(s) - Len(sub) + 1) : SubSeq(s, i, i + Len(sub) - 1) = sub

\* list.join(sep)
RECURSIVE Join(_, _)
Join(list, sep) ==
    IF list = <<>> THEN ""
    ELSE IF Len(list) = 1 THEN list[1]
    ELSE Join(SubSeq(list, 1, Len(list) - 1), sep) \o sep \o list[Len(list)]

commonExceptions ==
    << "NullPointerException", "IndexOutOfBoundsException", "IllegalArgumentException",
       "ClassCastException", "ConcurrentModificationException", "OutOfMemoryError",
       "StackOverflowError" >>

\* The advice record, in the order of Object.entries.
advice ==
    << <<"NullPointerException",
         "Check for null values before accessing object methods or properties">>,
       <<"IndexOutOfBoundsException",
         "Verify array/list bounds before accessing elements">>,
       <<"IllegalArgumentException",
         "Validate method parameters before use">>,
       <<"ClassCastException",
         "Verify object types before casting">>,
       <<"ConcurrentModificationException",
         "Use thread-safe collections or synchronization when modifying collections across threads">>,
       <<"OutOfMemoryError",
         "Review memory usage, optimize data structures, or increase heap size">>,
       <<"StackOverflowError",
         "Check for infinite recursion or deeply nested method calls">> >>

GenericAdvice == "Review the stack trace to identify the root cause"

\* exceptionType.includes(...) raises a TypeError on undefined.
FixRaises(exceptionType) == exceptionType = ABSENT

isCommonException(exceptionType) ==
    \E i \in 1..Len(commonExceptions) : Includes(exceptionType, commonExceptions[i])

getCommonExceptionAdvice(exceptionType) ==
    LET hits == {i \in 1..Len(advice) : Includes(exceptionType, advice[i][1])}
    IN  IF hits = {} THEN GenericAdvice
        ELSE advice[CHOOSE i \in hits : \A j \in hits : i <= j][2]

\* The property of the top frame, ABSENT (ABSENT_NUM for the line) when there
\* is no frame.
TopFrame(stackFrames) ==
    IF Len(stackFrames) > 0 THEN stackFrames[1]
    ELSE [method |-> ABSENT, class |-> ABSENT, file |-> ABSENT, line |-> ABSENT_NUM]

\* topFrame?.class || 'unknown class'
StrOrUnknownClass(class) == IF Truthy(class) THEN class ELSE "unknown class"

FixSentences(exceptionType, stackFrames, crashMessage, appVersion) ==
    LET topFrame == TopFrame(stackFrames) IN
    <<"The crash occurs in " \o StrOrUnknownClass(topFrame.class)>>
    \o (IF Truthy(topFrame.method)
        THEN <<"in the " \o topFrame.method \o " method">> ELSE <<>>)
    \o (IF Truthy(topFrame.file) /\ topFrame.line # ABSENT_NUM /\ topFrame.line # 0
        THEN <<"at " \o topFrame.file \o ":" \o ToString(topFrame.line)>> ELSE <<>>)
    \o <<"when a " \o ToStr(exceptionType) \o " is thrown">>
    \o (IF Truthy(crashMessage)
        THEN <<"with the message: \"" \o crashMessage \o "\"">> ELSE <<>>)
    \o (IF isCommonException(exceptionType)
        THEN <<getCommonExceptionAdvice(exceptionType)>> ELSE <<>>)
    \o (IF Truthy(appVersion)
        THEN <<"This occurs in app version " \o appVersion>> ELSE <<>>)

generateFixSuggestionContext(exceptionType, stackFrames, crashMessage, appVersion) ==
    Join(FixSentences(exceptionType, stackFrames, crashMessage, appVersion), ". ") \o "."

(***************************************************************************)
(* CrashProcessor.generateCrashTitle                                       *)
(***************************************************************************)
\* exceptionType.split(...) raises a TypeError on undefined.
TitleRaises(exceptionType) == exceptionType = ABSENT

\* Mutant: a long message is cut to 50 characters before the ellipsis.
generateCrashTitle_Cut50(exceptionType, message) ==
    LET popped == SplitPop(exceptionType)
        shortType == IF popped # "" THEN popped ELSE exceptionType
        shortMessage == IF Truthy(message)
                        THEN IF Len(message) > 50
                             THEN Substring0(message, 50) \o "..."
                             ELSE message
                        ELSE ""
    IN  IF shortMessage # "" THEN shortType \o ": " \o shortMessage ELSE shortType

generateCrashTitle(exceptionType, message) ==
    LET popped == SplitPop(exceptionType)
        shortType == IF popped # "" THEN popped ELSE exceptionType
        shortMessage == IF Truthy(message)
                        THEN IF Len(message) > 50
                             THEN Substring0(message, 47) \o "..."
                             ELSE message
                        ELSE ""
    IN  IF shortMessage # "" THEN shortType \o ": " \o shortMessage ELSE shortType

(***************************************************************************)
(* CrashProcessor.processCrashRows                                         *)
(***************************************************************************)
GroupKey(row) ==
    ToStr(row.exception_type) \o "-" \o ToStr(row.exception_message)
        \o "-" \o ToStr(row.app_version)

\* Mutant: every user id is added, the empty and the absent one too.
UsersOf_Unchecked(row) == {row.user_id}

UsersOf(row) == IF Truthy(row.user_id) THEN {row.user_id} ELSE {}

\* Mutant: a later row of a group is not counted.
AddRow_NoCount(crashMap, row) ==
    LET key == GroupKey(row) IN
    IF \E i \in 1..Len(crashMap) : crashMap[i].key = key
    THEN [i \in 1..Len(crashMap) |->
            IF crashMap[i].key = key
            THEN [crashMap[i] EXCEPT !.users = @ \cup UsersOf(row)]
            ELSE crashMap[i]]
    ELSE Append(crashMap, [key |-> key, row |-> row, count |-> 1, users |-> UsersOf(row)])

\* Mutant: the latest row of a group becomes its representative.
AddRow_LastRow(crashMap, row) ==
    LET key == GroupKey(row) IN
    IF \E i \in 1..Len(crashMap) : crashMap[i].key = key
    THEN [i \in 1..Len(crashMap) |->
            IF crashMap[i].key = key
            THEN [crashMap[i] EXCEPT !.row = row, !.count = @ + 1,
                                     !.users = @ \cup UsersOf(row)]
            ELSE crashMap[i]]
    ELSE Append(crashMap, [key |-> key, row |-> row, count |-> 1, users |-> UsersOf(row)])

\* Mutant: every row opens an entry of its own.
AddRow_AlwaysNew(crashMap, row) ==
    Append(crashMap, [key |-> GroupKey(row), row |-> row, count |-> 1, users |-> UsersOf(row)])

\* One step of rows.forEach: crashMap is the Map in insertion order.
AddRow(crashMap, row) ==
    LET key == GroupKey(row) IN
    IF \E i \in 1..Len(crashMap) : crashMap[i].key = key
    THEN [i \in 1..Len(crashMap) |->
            IF crashMap[i].key = key
            THEN [crashMap[i] EXCEPT !.count = @ + 1, !.users = @ \cup UsersOf(row)]
            ELSE crashMap[i]]
    ELSE Append(crashMap, [key |-> key, row |-> row, count |-> 1, users |-> UsersOf(row)])

RECURSIVE BuildCrashMap(_)
BuildCrashMap(rows) ==
    IF rows = <<>> THEN <<>>
    ELSE AddRow(BuildCrashMap(SubSeq(rows, 1, Len(rows) - 1)), rows[Len(rows)])

MessageOrDefault(message) == IF Truthy(message) THEN message ELSE "Unknown error"

SummaryOf(total, row, count, affectedUsers) ==
    [id             |-> row.crash_id,
     timestamp      |-> row.timestamp,
     impact         |-> calculateImpactLevel(total, affectedUsers, count, row.is_fatal),
     affected_users |-> affectedUsers,
     occurrences    |-> count,
     app_version    |-> row.app_version,
     platform       |-> row.platform,
     crash_message  |-> MessageOrDefault(row.exception_message),
     is_fatal       |-> row.is_fatal,
     title          |-> generateCrashTitle(row.exception_type, row.exception_message)]

\* The map callback raises when the title of a group's first row cannot be built.
RowsRaise(rows) ==
    LET crashMap == BuildCrashMap(rows)
    IN  \E i \in 1..Len(crashMap) : TitleRaises(crashMap[i].row.exception_type)

processCrashRows(total, rows) ==
    LET crashMap == BuildCrashMap(rows)
        summaries == [i \in 1..Len(crashMap) |->
                         SummaryOf(total, crashMap[i].row, crashMap[i].count,
                                   Cardinality(crashMap[i].users))]
    IN  sortByImpactAndFrequency(summaries)

(***************************************************************************)
(* JSON.parse on the texts a row carries.  A decoded value is its kind and *)
(* its items: the elements of an array, the keys and values of an object   *)
(* in turn, the text of a string or number.                                *)
(***************************************************************************)
JsonValue(kind, items) == [kind |-> kind, items |-> items]

EmptyArray == JsonValue("array", <<>>)
EmptyObject == JsonValue("object", <<>>)

\* The texts that JSON.parse decodes, with their values; it raises a
\* SyntaxError on every other text.
JsonTable ==
    { <<"[\"login\",\"tap\"]", JsonValue("array", <<"login", "tap">>)>>,
      <<"[]", EmptyArray>>,
      <<"{\"k\":\"v\"}", JsonValue("object", <<"k", "v">>)>>,
      <<"{}", EmptyObject>>,
      <<"42", JsonValue("number", <<"42">>)>>,
      <<"\"s\"", JsonValue("string", <<"s">>)>>,
      <<"null", JsonValue("null", <<>>)>> }

JsonParses(text) == \E entry \in JsonTable : entry[1] = text

JsonParse(text) == (CHOOSE entry \in JsonTable : entry[1] = text)[2]

(***************************************************************************)
(* CrashProcessor.formatMemory.  A byte count is the pair of its whole     *)
(* MiB and the bytes left over, as device sizes pass 2^31; NoBytes is an   *)
(* absent count.  Dividing a count below 2^53 by a power of two is exact,  *)
(* and toFixed rounds the exact quotient, halves up.                       *)
(***************************************************************************)
MiB == 1048576       \* 1024 * 1024
MiBPerGiB == 1024

Bytes(mib, rest) == [mib |-> mib, rest |-> rest]

NoBytes == Bytes(-1, 0)

\* gb.toFixed(1), gb = numBytes / (1024 * 1024 * 1024)
GbToFixed1(bytes) ==
    LET tenths == (bytes.mib * 10 + (bytes.rest * 10) \div MiB + 512) \div MiBPerGiB
    IN  ToString(tenths \div 10) \o "." \o ToString(tenths % 10)

\* mb.toFixed(0), mb = numBytes / (1024 * 1024)
MbToFixed0(bytes) ==
    ToString(bytes.mib + (IF 2 * bytes.rest >= MiB THEN 1 ELSE 0))

\* Mutant: exactly 1 GiB is not yet written in GB.
formatMemory_Above1GiB(bytes) ==
    IF bytes = NoBytes \/ bytes = Bytes(0, 0) THEN "Unknown"
    ELSE IF bytes.mib > MiBPerGiB \/ (bytes.mib = MiBPerGiB /\ bytes.rest > 0)
         THEN GbToFixed1(bytes) \o "GB"
         ELSE MbToFixed0(bytes) \o "MB"

formatMemory(bytes) ==
    IF bytes = NoBytes \/ bytes = Bytes(0, 0) THEN "Unknown"
    ELSE IF bytes.mib >= MiBPerGiB
         THEN GbToFixed1(bytes) \o "GB"
         ELSE MbToFixed0(bytes) \o "MB"

(***************************************************************************)
(* CrashProcessor.extractDeviceInfo and extractCrashContext                *)
(***************************************************************************)
\* v || fallback for a string
StrOr(v, fallback) == IF Truthy(v) THEN v ELSE fallback

extractDeviceInfo(row) ==
    [model             |-> StrOr(row.device_model, "Unknown"),
     os_version        |-> StrOr(row.os_version, "Unknown"),
     memory_available  |-> formatMemory(row.memory_available),
     storage_available |-> formatMemory(row.storage_available),
     orientation       |-> "Unknown",
     battery_level     |-> ABSENT_NUM]

\* try { if (text) value = JSON.parse(text) } catch { value = onError }
DecodeOr(text, initial, onError) ==
    IF Truthy(text)
    THEN IF JsonParses(text) THEN JsonParse(text) ELSE onError
    ELSE initial

ContextOf(row, breadcrumbs, customKeys) ==
    [app_version      |-> StrOr(row.app_version, "Unknown"),
     os_version       |-> StrOr(row.os_version, "Unknown"),
     device           |-> StrOr(row.device_model, "Unknown"),
     memory_available |-> formatMemory(row.memory_available),
     breadcrumbs      |-> breadcrumbs,
     custom_keys      |-> customKeys,
     session_id       |-> StrOr(row.session_id, "Unknown"),
     user_id          |-> row.user_id]

\* Mutant: breadcrumbs that fail to decode are dropped.
extractCrashContext_DropRaw(row) ==
    ContextOf(row,
              DecodeOr(row.breadcrumbs, EmptyArray, EmptyArray),
              DecodeOr(row.custom_keys, EmptyObject, EmptyObject))

extractCrashContext(row) ==
    ContextOf(row,
              DecodeOr(row.breadcrumbs, EmptyArray,
                       JsonValue("array", <<row.breadcrumbs>>)),
              DecodeOr(row.custom_keys, EmptyObject, EmptyObject))

(***************************************************************************)
(* Regular expressions of CrashProcessor.parseStackTrace and               *)
(* parseStackFrame, matched as String.prototype.match does: the leftmost   *)
(* start, and each greedy quantifier as long as the rest allows.  A match  *)
(* is the sequence of its capture groups (ABSENT for a group that took no  *)
(* part); no match is NoMatch.                                             *)
(***************************************************************************)
DigitChars == {"0", "1", "2", "3", "4", "5", "6", "7", "8", "9"}

HexChars == DigitChars \cup {"a", "b", "c", "d", "e", "f"}

LowerChars ==
    {"a", "b", "c", "d", "e", "f", "g", "h", "i", "j", "k", "l", "m",
     "n", "o", "p", "q", "r", "s", "t", "u", "v", "w", "x", "y", "z"}

UpperChars ==
    {"A", "B", "C", "D", "E", "F", "G", "H", "I", "J", "K", "L", "M",
     "N", "O", "P", "Q", "R", "S", "T", "U", "V", "W", "X", "Y", "Z"}

\* \w
WordChars == DigitChars \cup LowerChars \cup UpperChars \cup {"_"}

\* \s, and the characters that . does not match
SpaceChars == {" ", "\t", "\n", "\r", "\f"}
LineTerminators == {"\n", "\r"}

NoMatch == <<>>

SetMin(S) == CHOOSE x \in S : \A y \in S : x <= y
SetMax(S) == CHOOSE x \in S : \A y \in S : x >= y

\* The character at place i, "" outside the string.
At(s, i) == IF i >= 1 /\ i <= Len(s) THEN SubSeq(s, i, i) ELSE ""

\* The end of the longest run of characters of a class that starts at place i
\* (i - 1 when the character at i is not of the class).
RunEnd(s, i, class) ==
    LET stops == {j \in i..Len(s) : At(s, j) \notin class}
    IN  IF stops = {} THEN Len(s) ELSE SetMin(stops) - 1

\* Every character of s[i..j] is matched by "."
AllDot(s, i, j) == \A n \in i..j : At(s, n) \notin LineTerminators

\* The candidate (start, spaces, end) that backtracking reaches first: the
\* leftmost start, then the most spaces, then the longest first group.
First3(cands) ==
    CHOOSE c \in cands : \A d \in cands :
        \/ c[1] < d[1]
        \/ c[1] = d[1] /\ c[2] > d[2]
        \/ c[1] = d[1] /\ c[2] = d[2] /\ c[3] >= d[3]

\* The starts of "at\s": the places of "at" followed by a space.
AtStarts(s) ==
    {p \in 1..(Len(s) - 2) : SubSeq(s, p, p + 1) = "at" /\ At(s, p + 2) \in SpaceChars}

\* \.(\w+)\(([^:]+):(\d+)(?::(\d+))?\) from place e + 1 on: groups 2 to 5.
TailA(s, e) ==
    LET f == RunEnd(s, e + 2, WordChars)
        colons == {j \in (f + 2)..Len(s) : At(s, j) = ":"}
        c == SetMin(colons)
        d == RunEnd(s, c + 1, DigitChars)
        d2 == RunEnd(s, d + 2, DigitChars)
    IN  IF At(s, e + 1) # "." \/ f < e + 2 \/ At(s, f + 1) # "(" \/ colons = {}
        THEN NoMatch
        ELSE IF c < f + 3 \/ d < c + 1
        THEN NoMatch
        ELSE IF At(s, d + 1) = ":" /\ d2 >= d + 2 /\ At(s, d2 + 1) = ")"
        THEN <<SubSeq(s, e + 2, f), SubSeq(s, f + 2, c - 1), SubSeq(s, c + 1, d),
               SubSeq(s, d + 2, d2)>>
        ELSE IF At(s, d + 1) = ")"
        THEN <<SubSeq(s, e + 2, f), SubSeq(s, f + 2, c - 1), SubSeq(s, c + 1, d), ABSENT>>
        ELSE NoMatch

\* \.(\w+)\((.+)\) from place e + 1 on: groups 2 and 3.
TailB(s, e) ==
    LET f == RunEnd(s, e + 2, WordChars)
        closes == {r \in (f + 3)..Len(s) : At(s, r) = ")" /\ AllDot(s, f + 2, r - 1)}
    IN  IF At(s, e + 1) # "." \/ f < e + 2 \/ At(s, f + 1) # "(" \/ closes = {}
        THEN NoMatch
        ELSE <<SubSeq(s, e + 2, f), SubSeq(s, f + 2, SetMax(closes) - 1)>>

\* The candidates of at\s+(.+) followed by a tail: start p, k spaces, the
\* first group ending at e.
CandA(s) ==
    UNION { UNION { { <<p, k, e>> : e \in {e \in (p + 2 + k)..Len(s) :
                                              /\ AllDot(s, p + 2 + k, e)
                                              /\ TailA(s, e) # NoMatch} }
                    : k \in 1..(RunEnd(s, p + 2, SpaceChars) - (p + 1)) }
            : p \in AtStarts(s) }

CandB(s) ==
    UNION { UNION { { <<p, k, e>> : e \in {e \in (p + 2 + k)..Len(s) :
                                              /\ AllDot(s, p + 2 + k, e)
                                              /\ TailB(s, e) # NoMatch} }
                    : k \in 1..(RunEnd(s, p + 2, SpaceChars) - (p + 1)) }
            : p \in AtStarts(s) }

\* /at\s+(.+)\.(\w+)\(([^:]+):(\d+)(?::(\d+))?\)/
MatchA(s) ==
    IF CandA(s) = {} THEN NoMatch
    ELSE LET c == First3(CandA(s))
         IN  <<SubSeq(s, c[1] + 2 + c[2], c[3])>> \o TailA(s, c[3])

\* /at\s+(.+)\.(\w+)\((.+)\)/
MatchB(s) ==
    IF CandB(s) = {} THEN NoMatch
    ELSE LET c == First3(CandB(s))
         IN  <<SubSeq(s, c[1] + 2 + c[2], c[3])>> \o TailB(s, c[3])

\* \s+\((.+)<sep>(\d+)\) from place e + 1 on, sep being "+" or ":": the last
\* two groups.
TailParen(s, e, sep) ==
    LET q == RunEnd(s, e + 1, SpaceChars) + 1
        seps == {m \in (q + 2)..Len(s) :
                    /\ At(s, m) = sep
                    /\ AllDot(s, q + 1, m - 1)
                    /\ RunEnd(s, m + 1, DigitChars) >= m + 1
                    /\ At(s, RunEnd(s, m + 1, DigitChars) + 1) = ")"}
    IN  IF q < e + 2 \/ At(s, q) # "(" \/ seps = {}
        THEN NoMatch
        ELSE <<SubSeq(s, q + 1, SetMax(seps) - 1),
               SubSeq(s, SetMax(seps) + 1, RunEnd(s, SetMax(seps) + 1, DigitChars))>>

\* #\d+\s+pc\s+[0-9a-f]+ from the "#" at place h: the place of its last
\* character, 0 when it does not match.
NativeHeadEnd(s, h) ==
    LET d1 == RunEnd(s, h + 1, DigitChars)
        w1 == RunEnd(s, d1 + 1, SpaceChars)
        w2 == RunEnd(s, w1 + 3, SpaceChars)
        x == RunEnd(s, w2 + 1, HexChars)
    IN  IF /\ d1 >= h + 1 /\ w1 >= d1 + 1
           /\ At(s, w1 + 1) = "p" /\ At(s, w1 + 2) = "c"
           /\ w2 >= w1 + 3 /\ x >= w2 + 1
        THEN x ELSE 0

CandC(s) ==
    UNION { UNION { { <<h, k, e>> : e \in {e \in (NativeHeadEnd(s, h) + k + 1)..Len(s) :
                                              /\ AllDot(s, NativeHeadEnd(s, h) + k + 1, e)
                                              /\ TailParen(s, e, "+") # NoMatch} }
                    : k \in 1..(RunEnd(s, NativeHeadEnd(s, h) + 1, SpaceChars)
                                    - NativeHeadEnd(s, h)) }
            : h \in {h \in 1..Len(s) : At(s, h) = "#" /\ NativeHeadEnd(s, h) > 0} }

\* /\s*#\d+\s+pc\s+[0-9a-f]+\s+(.+)\s+\((.+)\+(\d+)\)/
MatchC(s) ==
    IF CandC(s) = {} THEN NoMatch
    ELSE LET c == First3(CandC(s))
         IN  <<SubSeq(s, NativeHeadEnd(s, c[1]) + c[2] + 1, c[3])>> \o TailParen(s, c[3], "+")

CandD(s) ==
    UNION { { <<p, 0, e>> : e \in {e \in p..Len(s) :
                                      AllDot(s, p, e) /\ TailParen(s, e, ":") # NoMatch} }
            : p \in 1..Len(s) }

\* /(.+)\s+\((.+):(\d+)\)/
MatchD(s) ==
    IF CandD(s) = {} THEN NoMatch
    ELSE LET c == First3(CandD(s))
         IN  <<SubSeq(s, c[1], c[3])>> \o TailParen(s, c[3], ":")

\* /^(\w+(?:\.\w+)*(?:Exception|Error)?)(?::\s*(.*))?$/ : the first group
\* is the run of word characters and dots at the start, which must be dotted
\* words and reach the end of the line or a colon.
MatchHeader(s) ==
    LET m == RunEnd(s, 1, WordChars \cup {"."})
        dotted == /\ m >= 1
                  /\ At(s, 1) # "." /\ At(s, m) # "."
                  /\ \A i \in 1..(m - 1) : ~(At(s, i) = "." /\ At(s, i + 1) = ".")
        b == RunEnd(s, m + 2, SpaceChars) + 1
    IN  IF ~dotted THEN NoMatch
        ELSE IF m = Len(s) THEN <<SubSeq(s, 1, m), ABSENT>>
        ELSE IF At(s, m + 1) = ":" /\ AllDot(s, b, Len(s))
        THEN <<SubSeq(s, 1, m), SubSeq(s, b, Len(s))>>
        ELSE NoMatch

(***************************************************************************)
(* CrashProcessor.createStackFrame, detectLibrary, parseStackFrame and     *)
(* parseStackTrace                                                         *)
(***************************************************************************)
StackFrame(method, class, file, line, column, library) ==
    [method |-> method, class |-> class, file |-> file, line |-> line,
     column |-> column, library |-> library]

\* parseStackFrame's null
NullFrame == StackFrame(ABSENT, ABSENT, ABSENT, ABSENT_NUM, ABSENT_NUM, ABSENT)

\* match[i], undefined past the last group
Group(match, i) == IF i <= Len(match) THEN match[i] ELSE ABSENT

DigitValue(c) == CHOOSE n \in 0..9 : At("0123456789", n + 1) = c

\* parseInt of a string of decimal digits
RECURSIVE DigitsValue(_)
DigitsValue(digits) ==
    IF digits = "" THEN 0
    ELSE 10 * DigitsValue(SubSeq(digits, 1, Len(digits) - 1))
         + DigitValue(At(digits, Len(digits)))

LowerOf(c) ==
    IF c \in UpperChars
    THEN At("abcdefghijklmnopqrstuvwxyz",
            CHOOSE i \in 1..26 : At("ABCDEFGHIJKLMNOPQRSTUVWXYZ", i) = c)
    ELSE c

RECURSIVE ToLowerCase(_)
ToLowerCase(s) ==
    IF s = "" THEN "" ELSE LowerOf(At(s, 1)) \o ToLowerCase(SubSeq(s, 2, Len(s)))

StartsWith(s, prefix) == Len(s) >= Len(prefix) /\ SubSeq(s, 1, Len(prefix)) = prefix

libraryPrefixes ==
    << "android.", "androidx.", "com.google.", "java.", "kotlin.", "swift.",
       "foundation.", "uikit." >>

\* The first prefix the lower-cased class name starts with, without its dot.
detectLibrary(className) ==
    LET hits == {i \in 1..Len(libraryPrefixes) :
                    StartsWith(ToLowerCase(className), libraryPrefixes[i])}
    IN  IF hits = {} THEN ABSENT
        ELSE SubSeq(libraryPrefixes[SetMin(hits)], 1, Len(libraryPrefixes[SetMin(hits)]) - 1)

\* match.length counts the whole match too: Len(match) + 1.
createStackFrame(match) ==
    IF Len(match) + 1 >= 4
    THEN LET className == IF Group(match, 1) = ABSENT THEN "Unknown"
                          ELSE StrOr(SplitPop(Group(match, 1)), "Unknown")
         IN  StackFrame(StrOr(Group(match, 2), "unknown"),
                        StrOr(Group(match, 1), className),
                        StrOr(Group(match, 3), "Unknown"),
                        IF Group(match, 4) = ABSENT THEN 0 ELSE DigitsValue(Group(match, 4)),
                        IF Truthy(Group(match, 5)) THEN DigitsValue(Group(match, 5))
                        ELSE ABSENT_NUM,
                        detectLibrary(StrOr(Group(match, 1), "")))
    ELSE StackFrame("unknown", "Unknown", "Unknown", 0, ABSENT_NUM, ABSENT)

\* Mutant: the pattern without a line number is tried before the one with it.
parseStackFrame_LooseFirst(line) ==
    IF MatchB(line) # NoMatch THEN createStackFrame(MatchB(line))
    ELSE IF MatchA(line) # NoMatch THEN createStackFrame(MatchA(line))
    ELSE IF MatchC(line) # NoMatch THEN createStackFrame(MatchC(line))
    ELSE IF MatchD(line) # NoMatch THEN createStackFrame(MatchD(line))
    ELSE NullFrame

\* The first pattern that matches makes the frame.
parseStackFrame(line) ==
    IF MatchA(line) # NoMatch THEN createStackFrame(MatchA(line))
    ELSE IF MatchB(line) # NoMatch THEN createStackFrame(MatchB(line))
    ELSE IF MatchC(line) # NoMatch THEN createStackFrame(MatchC(line))
    ELSE IF MatchD(line) # NoMatch THEN createStackFrame(MatchD(line))
    ELSE NullFrame

\* s.split('\n')
RECURSIVE SplitLines(_)
SplitLines(s) ==
    LET breaks == {i \in 1..Len(s) : At(s, i) = "\n"}
    IN  IF breaks = {} THEN <<s>>
        ELSE <<SubSeq(s, 1, SetMin(breaks) - 1)>>
             \o SplitLines(SubSeq(s, SetMin(breaks) + 1, Len(s)))

\* line.trim()
Trim(s) ==
    LET inked == {i \in 1..Len(s) : At(s, i) \notin SpaceChars}
    IN  IF inked = {} THEN "" ELSE SubSeq(s, SetMin(inked), SetMax(inked))

\* split('\n').map(line => line.trim()).filter(line => line)
TrimmedLines(s) ==
    LET split == SplitLines(s)
        trimmed == [i \in 1..Len(split) |-> Trim(split[i])]
    IN  SelectSeq(trimmed, LAMBDA line : line # "")

\* lines.slice(1).forEach(line => { if (frame) frames.push(frame) })
FramesOf(lines) ==
    LET parsed == [i \in 1..(Len(lines) - 1) |-> parseStackFrame(lines[i + 1])]
    IN  SelectSeq(parsed, LAMBDA frame : frame # NullFrame)

StackTrace(exceptionType, message, frames) ==
    [exception_type |-> exceptionType, message |-> message, frames |-> frames]

\* The statements after the test of the text.
ParseLines(lines) ==
    LET exceptionMatch == IF Len(lines) > 0 THEN MatchHeader(lines[1]) ELSE NoMatch
    IN  IF exceptionMatch # NoMatch
        THEN StackTrace(exceptionMatch[1], StrOr(exceptionMatch[2], "No message"),
                        FramesOf(lines))
        ELSE StackTrace("Unknown", "Unknown error", FramesOf(lines))

\* Mutant: only an absent text is answered with the sentinel.
parseStackTrace_AbsentOnly(stackTraceString) ==
    IF stackTraceString = ABSENT
    THEN StackTrace("Unknown", "No stack trace available", <<>>)
    ELSE ParseLines(TrimmedLines(stackTraceString))

parseStackTrace(stackTraceString) ==
    IF ~Truthy(stackTraceString)
    THEN StackTrace("Unknown", "No stack trace available", <<>>)
    ELSE ParseLines(TrimmedLines(stackTraceString))

(***************************************************************************)
(* CrashProcessor.processCrashDetails.  parseStackTrace, extractDeviceInfo *)
(* and extractCrashContext run first and raise nothing (absent text is     *)
(* tested, JSON.parse is inside try); a TypeError comes from               *)
(* generateCrashTitle, which runs before generateFixSuggestionContext.     *)
(***************************************************************************)
processCrashDetails(total, row) ==
    [crash_summary         |-> SummaryOf(total, row, 1, 1),
     stack_trace           |-> parseStackTrace(row.stack_trace),
     context               |-> extractCrashContext(row),
     device_info           |-> extractDeviceInfo(row),
     suggested_fix_context |->
         generateFixSuggestionContext(row.exception_type,
                                      parseStackTrace(row.stack_trace).frames,
                                      row.exception_message, row.app_version)]

(***************************************************************************)
(* CrashProcessor.processTrendAnalysis and aggregateDeviceStats.           *)
(*                                                                         *)
(* A percentage is an integer number of hundredths of a percent (10000 is  *)
(* 100%), so rounding to two decimals is rounding to an integer.           *)
(***************************************************************************)
Hundred == 10000    \* the literal 100 of a crash-free rate, in hundredths

\* v || fallback for a number: undefined and 0 are falsy.
NumOr(v, fallback) == IF v = ABSENT_NUM \/ v = 0 THEN fallback ELSE v

\* Math.round(num / den) for num >= 0 and den > 0: halves round up.
RoundHalfUp(num, den) == (2 * num + den) \div (2 * den)

RECURSIVE SumSeq(_)
SumSeq(numbers) ==
    IF numbers = <<>> THEN 0
    ELSE SumSeq(SubSeq(numbers, 1, Len(numbers) - 1)) + numbers[Len(numbers)]

\* list.slice(0, n)
Slice0(list, n) == IF Len(list) <= n THEN list ELSE SubSeq(list, 1, n)

TopN == 10

\* row.crash_free_rate || 100
RateOf(row) == NumOr(row.crash_free_rate, Hundred)

TrendOf(row) ==
    [date            |-> row.date,
     crash_count     |-> NumOr(row.crashed_users, 0),
     affected_users  |-> NumOr(row.crashed_users, 0),
     crash_free_rate |-> RateOf(row)]

\* Math.round(overallCrashFreeRate * 100) / 100
OverallCrashFreeRate(crashFreeCounts) ==
    IF Len(crashFreeCounts) > 0
    THEN RoundHalfUp(SumSeq([i \in 1..Len(crashFreeCounts) |-> RateOf(crashFreeCounts[i])]),
                     Len(crashFreeCounts))
    ELSE Hundred

DeviceOf(stat) == IF Truthy(stat.group_key) THEN stat.group_key ELSE "Unknown"

CountOf(stat) == NumOr(stat.crash_count, 0)

\* One step of crashStats.forEach on deviceMap, the Map in insertion order.
AddStat(deviceMap, stat) ==
    IF \E i \in 1..Len(deviceMap) : deviceMap[i].device = DeviceOf(stat)
    THEN [i \in 1..Len(deviceMap) |->
            IF deviceMap[i].device = DeviceOf(stat)
            THEN [deviceMap[i] EXCEPT !.crash_count = @ + CountOf(stat)]
            ELSE deviceMap[i]]
    ELSE Append(deviceMap, [device |-> DeviceOf(stat), crash_count |-> CountOf(stat)])

RECURSIVE BuildDeviceMap(_)
BuildDeviceMap(crashStats) ==
    IF crashStats = <<>> THEN <<>>
    ELSE AddStat(BuildDeviceMap(SubSeq(crashStats, 1, Len(crashStats) - 1)),
                 crashStats[Len(crashStats)])

TotalCrashes(crashStats) ==
    SumSeq([i \in 1..Len(crashStats) |-> CountOf(crashStats[i])])

\* Mutant: the percentage is rounded up.
DevicePercentage_Ceil(crash_count, totalCrashes) ==
    IF totalCrashes > 0
    THEN (crash_count * 10000 + totalCrashes - 1) \div totalCrashes
    ELSE 0

\* Math.round((crash_count / totalCrashes) * 10000) / 100
DevicePercentage(crash_count, totalCrashes) ==
    IF totalCrashes > 0 THEN RoundHalfUp(crash_count * 10000, totalCrashes) ELSE 0

\* Mutant: ascending order of crash_count.
InsertDevice_Ascending(sorted, x) ==
    LET p == Cardinality({i \in 1..Len(sorted) : sorted[i].crash_count - x.crash_count <= 0})
    IN  SubSeq(sorted, 1, p) \o <<x>> \o SubSeq(sorted, p + 1, Len(sorted))

\* The stable sort with comparator b.crash_count - a.crash_count.
InsertDevice(sorted, x) ==
    LET p == Cardinality({i \in 1..Len(sorted) : x.crash_count - sorted[i].crash_count <= 0})
    IN  SubSeq(sorted, 1, p) \o <<x>> \o SubSeq(sorted, p + 1, Len(sorted))

RECURSIVE SortDevices(_)
SortDevices(list) ==
    IF list = <<>> THEN <<>>
    ELSE InsertDevice(SortDevices(SubSeq(list, 1, Len(list) - 1)), list[Len(list)])

\* Mutant: the percentage is taken of the total of the returned entries.
aggregateDeviceStats_SliceTotal(crashStats) ==
    LET deviceMap == BuildDeviceMap(crashStats)
        top == Slice0(SortDevices(deviceMap), TopN)
        sliceTotal == SumSeq([i \in 1..Len(top) |-> top[i].crash_count])
    IN  [i \in 1..Len(top) |->
            [device |-> top[i].device, crash_count |-> top[i].crash_count,
             percentage |-> DevicePercentage(top[i].crash_count, sliceTotal)]]

aggregateDeviceStats(crashStats) ==
    LET deviceMap == BuildDeviceMap(crashStats)
        totalCrashes == TotalCrashes(crashStats)
        entries == [i \in 1..Len(deviceMap) |->
                       [device      |-> deviceMap[i].device,
                        crash_count |-> deviceMap[i].crash_count,
                        percentage  |-> DevicePercentage(deviceMap[i].crash_count,
                                                         totalCrashes)]]
    IN  Slice0(SortDevices(entries), TopN)

processTrendAnalysis(crashStats, crashFreeCounts, topCrashes, timeRange) ==
    [time_range            |-> timeRange,
     trends                |-> [i \in 1..Len(crashFreeCounts) |-> TrendOf(crashFreeCounts[i])],
     top_crashes           |-> Slice0(topCrashes, TopN),
     most_affected_devices |-> aggregateDeviceStats(crashStats),
     crash_free_percentage |-> OverallCrashFreeRate(crashFreeCounts)]

(***************************************************************************)
(* Inputs.                                                                 *)
(***************************************************************************)
TotalUsersValues == {-5, 0, 10, 100, 10000}

D10 == "0123456789"
M50 == D10 \o D10 \o D10 \o D10 \o D10
M47 == SubSeq(M50, 1, 47)
M51 == M50 \o "x"
M60 == M50 \o D10

Shape(type, message, version, user, fatal, platform) ==
    [exception_type |-> type, exception_message |-> message, app_version |-> version,
     user_id |-> user, is_fatal |-> fatal, platform |-> platform]

RowShapes ==
    { Shape("a-b", "c", "1", "u1", TRUE, "android"),
      Shape("a-b", "c", "1", "u2", TRUE, "ios"),
      Shape("a-b", "c", "1", "", FALSE, "ios"),
      Shape("a-b", "c", "1", ABSENT, TRUE, "android"),
      Shape("a", "b-c", "1", "u2", FALSE, "ios"),
      Shape("A-b", "c", "1", "u1", TRUE, "android"),
      Shape("com.x.Foo", "", "2", "u1", TRUE, "android"),
      Shape("com.x.Foo", "", "2", "u2", FALSE, "android"),
      Shape("com.x.Foo", ABSENT, "2", "u1", FALSE, "ios"),
      Shape("Bar", M60, "1", "u3", FALSE, "ios"),
      Shape(ABSENT, "c", "1", "u1", TRUE, "android"),
      Shape("undefined", "c", "1", "u2", FALSE, "ios") }

Digit(i) == CASE i = 1 -> "1" [] i = 2 -> "2" [] i = 3 -> "3" [] i = 4 -> "4"
              [] OTHER -> "5"

\* The i-th row of a query result: event ids are unique within a result.
RowAt(shape, i) ==
    [crash_id          |-> "e" \o Digit(i),
     timestamp         |-> "t" \o Digit(i),
     platform          |-> shape.platform,
     app_version       |-> shape.app_version,
     exception_type    |-> shape.exception_type,
     exception_message |-> shape.exception_message,
     is_fatal          |-> shape.is_fatal,
     user_id           |-> shape.user_id]

RowSeqs ==
    UNION { { [i \in 1..n |-> RowAt(shapes[i], i)] : shapes \in [1..n -> RowShapes] }
            : n \in 0..MaxRows }

AffectedValues == (0..12) \cup {49, 50, 51, 100, 101, 150, 499, 500, 501}
OccurrenceValues == {0, 1, 99, 100, 101, 1000, 1001}

Levels == {"high", "medium", "low"}

PoolSummary(id, impact, occurrences) ==
    [id |-> id, timestamp |-> "t", impact |-> impact, affected_users |-> 1,
     occurrences |-> occurrences, app_version |-> "1", platform |-> "android",
     crash_message |-> "c", is_fatal |-> TRUE, title |-> "a: c"]

SummaryPool ==
    { PoolSummary(id, impact, occ) : id \in {"x", "y"}, impact \in Levels, occ \in {1, 2} }

SummaryLists == UNION { [1..n -> SummaryPool] : n \in 0..MaxList }

TitleTypes == {"com.example.FooException", "Foo", "Foo.", "a.b", ".", "", ABSENT}
TitleMessages == {ABSENT, "", "x", M47, M50, M51, M60}

\* Rows of the crash-free query: one per day.
RateValues == {ABSENT_NUM, 0, 5000, 9951, Hundred}

FreeRowAt(rate, i) ==
    [date |-> "d" \o Digit(i), crashed_users |-> i - 1, crash_free_rate |-> rate]

FreeRowSeqs ==
    UNION { { [i \in 1..n |-> FreeRowAt(rates[i], i)] : rates \in [1..n -> RateValues] }
            : n \in 0..MaxDays }

\* Rows of the statistics query: one per grouping key and day.
StatRows ==
    { [group_key |-> k, crash_count |-> c] :
          k \in {"A", "B", "Unknown", ABSENT}, c \in {ABSENT_NUM, 1, 4} }

ShortStatSeqs == UNION { [1..n -> StatRows] : n \in 0..MaxStats }

\* Many grouping keys: key i has count (i * step) % 5 + 1, and the first key
\* comes back on a later day.
ManyStats(n, step, again) ==
    [i \in 1..(n + again) |->
        IF i <= n
        THEN [group_key |-> "k" \o ToString(i), crash_count |-> ((i * step) % 5) + 1]
        ELSE [group_key |-> "k1", crash_count |-> 3]]

LongStatSeqs ==
    { ManyStats(n, step, again) : n \in 9..MaxKeys, step \in 1..3, again \in 0..1 }

TopCrashLists ==
    { <<>>, [i \in 1..(TopN + 1) |-> PoolSummary("x", "low", 1)] }

TrendArgs(stats, free, top) ==
    [crashStats |-> stats, crashFreeCounts |-> free, topCrashes |-> top, timeRange |-> "7d"]

TrendCalls ==
    { TrendArgs(stats, <<FreeRowAt(9951, 1)>>, <<>>) : stats \in ShortStatSeqs \cup LongStatSeqs }
    \cup { TrendArgs(<<>>, free, top) : free \in FreeRowSeqs, top \in TopCrashLists }

FixTypes ==
    { "java.lang.NullPointerException", "java.lang.RuntimeException", "OutOfMemoryError",
      "StackOverflowErrorInNullPointerException", "nullpointerexception", ABSENT }

Frame(method, class, file, line) ==
    [method |-> method, class |-> class, file |-> file, line |-> line,
     column |-> ABSENT_NUM, library |-> ABSENT]

FixFrameLists ==
    { <<>>,
      <<Frame("run", "com.x.Main", "Main.java", 42), Frame("call", "a.B", "B.java", 7)>>,
      <<Frame("run", "com.x.Main", "Native Method", 0)>>,
      <<Frame("", "", "Main.java", 3)>> }

FixCalls ==
    { [exceptionType |-> type, stackFrames |-> frames, crashMessage |-> message,
       appVersion |-> version] :
          type \in FixTypes, frames \in FixFrameLists,
          message \in {ABSENT, "", "boom"}, version \in {ABSENT, "", "1.2"} }

MemoryValues ==
    { NoBytes, Bytes(0, 0), Bytes(0, 1), Bytes(0, 524287), Bytes(0, 524288), Bytes(500, 0),
      Bytes(1023, 524287), Bytes(1023, 1048575), Bytes(1024, 0), Bytes(1075, 209715),
      Bytes(1075, 209716), Bytes(1280, 0), Bytes(1536, 0), Bytes(3789, 0), Bytes(12288, 0) }

\* The texts of the breadcrumbs and custom_keys columns: absent, empty,
\* the ones that decode, and two that do not.
JsonTexts == {ABSENT, "", "oops", "[\"login\""} \cup {entry[1] : entry \in JsonTable}

StackTexts ==
    { ABSENT, "", " \n\t", "a.b.: x", ".a", "a:   ", "Fatal Exception: java.lang.RuntimeException",
      "java.lang.NullPointerException: boom\n\tat com.x.Main.run(Main.java:42)\n"
          \o "\tat java.lang.Thread.run(Thread.java:919:3)\n  at a.B.call(Native Method)\n",
      "NSError\n#00 pc 0004f1a2  /system/lib/libc.so (abort+63)\n"
          \o "0 MyApp main (main.swift:12)\nnot a frame",
      "OutOfMemoryError:x y\nformat at  x.y.z(a(b):1)\nat androidx.a.b(c:d:1)\nat x.(y)",
      "E\nat KOTLIN.x.y(z)\nat com.google.a.b(c:03)\r\nx (a:1) (b:2)\n (a:1)" }

\* The device columns of a row.
Phone(model, os, session, storage) ==
    [device_model |-> model, os_version |-> os, session_id |-> session,
     storage_available |-> storage]

Phones ==
    { Phone("Pixel 8", "14", "s1", Bytes(12288, 0)),
      Phone(ABSENT, ABSENT, ABSENT, NoBytes),
      Phone("", "", "", Bytes(0, 0)) }

\* The row of a crash: every column of the table.
DetailRow(shape, stack, phone, memory, breadcrumbs, customKeys) ==
    [crash_id          |-> "e1",
     timestamp         |-> "t1",
     platform          |-> shape.platform,
     app_version       |-> shape.app_version,
     exception_type    |-> shape.exception_type,
     exception_message |-> shape.exception_message,
     is_fatal          |-> shape.is_fatal,
     user_id           |-> shape.user_id,
     stack_trace       |-> stack,
     device_model      |-> phone.device_model,
     os_version        |-> phone.os_version,
     memory_available  |-> memory,
     storage_available |-> phone.storage_available,
     session_id        |-> phone.session_id,
     custom_keys       |-> customKeys,
     breadcrumbs       |-> breadcrumbs]

NpeShape == Shape("java.lang.NullPointerException", "boom", "1.2", "u1", TRUE, "android")

DetailRows ==
    { DetailRow(shape, stack, phone, Bytes(1536, 0), "[]", "{}") :
          shape \in RowShapes, stack \in {ABSENT, "E\nat a.b(c:1)"}, phone \in Phones }
    \cup { DetailRow(shape, stack, Phone("Pixel 8", "14", "s1", Bytes(12288, 0)), NoBytes,
                     ABSENT, ABSENT) :
               shape \in {NpeShape, Shape("Bar", "", "", "u3", FALSE, "ios")},
               stack \in StackTexts }
    \cup { DetailRow(shape, "", Phone("Pixel 8", "14", "s1", Bytes(12288, 0)), memory,
                     breadcrumbs, customKeys) :
               shape \in {NpeShape, Shape(ABSENT, "c", "1", "u1", TRUE, "android")},
               memory \in {NoBytes, Bytes(500, 0)},
               breadcrumbs \in JsonTexts, customKeys \in JsonTexts }

(***************************************************************************)
(* The state machine.                                                      *)
(***************************************************************************)
Calls ==
    { <<"processCrashRows", rows>> : rows \in RowSeqs }
    \cup { <<"processCrashDetails", row>> : row \in DetailRows }
    \cup { <<"calculateImpactLevel", [affectedUsers |-> a, occurrences |-> o, isFatal |-> f]>> :
                a \in AffectedValues, o \in OccurrenceValues, f \in BOOLEAN }
    \cup { <<"sortByImpactAndFrequency", list>> : list \in SummaryLists }
    \cup { <<"generateCrashTitle", [exceptionType |-> type, message |-> message]>> :
                type \in TitleTypes, message \in TitleMessages }
    \cup { <<"processTrendAnalysis", args>> : args \in TrendCalls }
    \cup { <<"generateFixSuggestionContext", args>> : args \in FixCalls }
    \cup { <<"formatMemory", bytes>> : bytes \in MemoryValues }
    \cup { <<"parseStackTrace", text>> : text \in StackTexts }

\* The array of the caller that the call sorts in place: the argument of
\* sortByImpactAndFrequency, the topCrashes of processTrendAnalysis.
CallersArray(call) ==
    IF call[1] = "sortByImpactAndFrequency" THEN call[2]
    ELSE IF call[1] = "processTrendAnalysis" THEN call[2].topCrashes
    ELSE <<>>

\* The call that returns is added to the history, with the baseline before
\* and after it.
Logged ==
    history' = Append(history, [op |-> op, input |-> input, output |-> output',
                                raised |-> raised', before |-> totalUsers,
                                after |-> totalUsers'])

(***************************************************************************)
(* CrashlyticsServer: a CallTool request and its outcome.                  *)
(***************************************************************************)
\* What a handler returns or throws: the class of the value, and the
\* ErrorCode of an McpError.
Outcome(class, code) == [class |-> class, code |-> code]

Pending == Outcome("pending", "none")
Content == Outcome("content", "none")
McpError(code) == Outcome("McpError", code)
PlainError == Outcome("Error", "none")
ZodError == Outcome("ZodError", "none")
TypeError == Outcome("TypeError", "none")

\* request.params.arguments: a property that is missing is ABSENT (ABSENT_NUM
\* for the limit).
Arguments(appPackage, limit, crashId, timeRange) ==
    [app_package |-> appPackage, limit |-> limit, crash_id |-> crashId,
     time_range |-> timeRange]

\* A request that has not arrived.  cause is the failure met, queryLimit the
\* LIMIT of the query issued (ABSENT_NUM when there is none); dispatched tells
\* whether the switch was reached with a connection test passed ("tested") or
\* not ("untested"), and duringTest whether it was reached while a connection
\* test was awaited.
NoRequest ==
    [pc |-> "idle", name |-> "", arguments |-> Arguments(ABSENT, ABSENT_NUM, ABSENT, ABSENT),
     result |-> Pending, cause |-> "none", queries |-> 0, queryLimit |-> ABSENT_NUM,
     dispatched |-> "no", duringTest |-> FALSE, alone |-> TRUE]

\* The server after its constructor: no client, no processor, no request.
ServerConstructed ==
    /\ bigQueryClient = "null"
    /\ crashProcessor = "null"
    /\ requests = [r \in 1..MaxRequests |-> NoRequest]
    /\ connection = [tests |-> 0, constructed |-> 0, passed |-> FALSE]

\* A processor is constructed and one of the calls is about to be made on it.
InitWith(calls) ==
    /\ totalUsers \in TotalUsersValues
    /\ \E call \in calls :
          /\ op = call[1]
          /\ input = call[2]
          /\ crashes = CallersArray(call)
    /\ pc = "call"
    /\ output = <<>>
    /\ raised = "none"
    /\ history = <<>>
    /\ ServerConstructed
    /\ environment = "ok"

Init == InitWith(Calls)

ProcessCrashRows ==
    /\ pc = "call" /\ op = "processCrashRows"
    /\ IF RowsRaise(input)
       THEN output' = <<>> /\ raised' = "TypeError"
       ELSE output' = processCrashRows(totalUsers, input) /\ raised' = "none"
    /\ pc' = "done"
    /\ UNCHANGED <<totalUsers, op, input, crashes>>
    /\ Logged
    /\ UNCHANGED serverVars

ProcessCrashDetails ==
    /\ pc = "call" /\ op = "processCrashDetails"
    /\ IF TitleRaises(input.exception_type)
       THEN output' = <<>> /\ raised' = "TypeError"
       ELSE output' = processCrashDetails(totalUsers, input) /\ raised' = "none"
    /\ pc' = "done"
    /\ UNCHANGED <<totalUsers, op, input, crashes>>
    /\ Logged
    /\ UNCHANGED serverVars

\* Mutant: the classifier adds the users it is shown to its baseline.
CalculateImpactLevel_Learns ==
    /\ pc = "call" /\ op = "calculateImpactLevel"
    /\ output' = calculateImpactLevel(totalUsers, input.affectedUsers, input.occurrences,
                                      input.isFatal)
    /\ totalUsers' = totalUsers + input.affectedUsers
    /\ pc' = "done"
    /\ UNCHANGED <<op, input, raised, crashes>>
    /\ Logged
    /\ UNCHANGED serverVars

CalculateImpactLevel ==
    /\ pc = "call" /\ op = "calculateImpactLevel"
    /\ output' = calculateImpactLevel(totalUsers, input.affectedUsers, input.occurrences,
                                      input.isFatal)
    /\ pc' = "done"
    /\ UNCHANGED <<totalUsers, op, input, raised, crashes>>
    /\ Logged
    /\ UNCHANGED serverVars

\* Array.prototype.sort sorts the array it is called on and returns it.
SortByImpactAndFrequency ==
    /\ pc = "call" /\ op = "sortByImpactAndFrequency"
    /\ crashes' = sortByImpactAndFrequency(crashes)
    /\ output' = crashes'
    /\ pc' = "done"
    /\ UNCHANGED <<totalUsers, op, input, raised>>
    /\ Logged
    /\ UNCHANGED serverVars

GenerateCrashTitle ==
    /\ pc = "call" /\ op = "generateCrashTitle"
    /\ IF TitleRaises(input.exceptionType)
       THEN output' = "" /\ raised' = "TypeError"
       ELSE output' = generateCrashTitle(input.exceptionType, input.message) /\ raised' = "none"
    /\ pc' = "done"
    /\ UNCHANGED <<totalUsers, op, input, crashes>>
    /\ Logged
    /\ UNCHANGED serverVars

ProcessTrendAnalysis ==
    /\ pc = "call" /\ op = "processTrendAnalysis"
    /\ output' = processTrendAnalysis(input.crashStats, input.crashFreeCounts,
                                      crashes, input.timeRange)
    /\ crashes' = sortByImpactAndFrequency(crashes)
    /\ pc' = "done"
    /\ UNCHANGED <<totalUsers, op, input, raised>>
    /\ Logged
    /\ UNCHANGED serverVars

GenerateFixSuggestionContext ==
    /\ pc = "call" /\ op = "generateFixSuggestionContext"
    /\ IF FixRaises(input.exceptionType)
       THEN output' = "" /\ raised' = "TypeError"
       ELSE /\ output' = generateFixSuggestionContext(input.exceptionType, input.stackFrames,
                                                      input.crashMessage, input.appVersion)
            /\ raised' = "none"
    /\ pc' = "done"
    /\ UNCHANGED <<totalUsers, op, input, crashes>>
    /\ Logged
    /\ UNCHANGED serverVars

FormatMemory ==
    /\ pc = "call" /\ op = "formatMemory"
    /\ output' = formatMemory(input)
    /\ pc' = "done"
    /\ UNCHANGED <<totalUsers, op, input, raised, crashes>>
    /\ Logged
    /\ UNCHANGED serverVars

ParseStackTrace ==
    /\ pc = "call" /\ op = "parseStackTrace"
    /\ output' = parseStackTrace(input)
    /\ pc' = "done"
    /\ UNCHANGED <<totalUsers, op, input, raised, crashes>>
    /\ Logged
    /\ UNCHANGED serverVars

Next ==
    \/ ProcessCrashRows
    \/ ProcessCrashDetails
    \/ CalculateImpactLevel
    \/ SortByImpactAndFrequency
    \/ GenerateCrashTitle
    \/ ProcessTrendAnalysis
    \/ GenerateFixSuggestionContext
    \/ FormatMemory
    \/ ParseStackTrace

Spec == Init /\ [][Next]_vars

(***************************************************************************)
(* Calls in turn on one processor: the request handler of the server keeps *)
(* one CrashProcessor and calls it once per request, with rows and lists   *)
(* built for that request.                                                 *)
(***************************************************************************)
SequenceCalls ==
    { <<"processCrashRows", <<RowAt(NpeShape, 1), RowAt(NpeShape, 2)>>>>,
      <<"processCrashRows", <<RowAt(Shape(ABSENT, "c", "1", "u1", TRUE, "android"), 1)>>>>,
      <<"processCrashDetails",
        DetailRow(NpeShape, "E\nat a.b(c:1)", Phone("Pixel 8", "14", "s1", Bytes(12288, 0)),
                  Bytes(1536, 0), "oops", "{}")>>,
      <<"processCrashDetails",
        DetailRow(Shape("Bar", "", "", "u3", FALSE, "ios"), ABSENT,
                  Phone(ABSENT, ABSENT, ABSENT, NoBytes), NoBytes, ABSENT, ABSENT)>>,
      <<"processTrendAnalysis",
        TrendArgs(<<[group_key |-> "A", crash_count |-> 4], [group_key |-> "B", crash_count |-> 1]>>,
                  <<FreeRowAt(9951, 1), FreeRowAt(0, 2)>>,
                  <<PoolSummary("x", "low", 1), PoolSummary("y", "high", 2)>>)>>,
      <<"processTrendAnalysis", TrendArgs(<<>>, <<>>, <<>>)>>,
      <<"calculateImpactLevel", [affectedUsers |-> 5, occurrences |-> 1, isFatal |-> TRUE]>>,
      <<"calculateImpactLevel", [affectedUsers |-> 501, occurrences |-> 1001, isFatal |-> FALSE]>>,
      <<"calculateImpactLevel", [affectedUsers |-> 0, occurrences |-> 0, isFatal |-> FALSE]>> }

InitSequence == InitWith(SequenceCalls)

\* The next request: another call on the same processor.
NextCall ==
    /\ pc = "done"
    /\ Len(history) < MaxCalls
    /\ \E call \in SequenceCalls :
          /\ op' = call[1]
          /\ input' = call[2]
          /\ crashes' = CallersArray(call)
    /\ pc' = "call"
    /\ output' = <<>>
    /\ raised' = "none"
    /\ UNCHANGED <<totalUsers, history>>
    /\ UNCHANGED serverVars

NextSequence ==
    \/ NextCall
    \/ ProcessCrashRows
    \/ ProcessCrashDetails
    \/ ProcessTrendAnalysis
    \/ CalculateImpactLevel

SpecSequence == InitSequence /\ [][NextSequence]_vars

(***************************************************************************)
(* CrashlyticsServer: the CallTool request handler.  The handler is an     *)
(* async function: it runs until it awaits the connection test or a query, *)
(* and other requests are taken up meanwhile.                              *)
(***************************************************************************)
TimeRanges == {"24h", "7d", "30d", "all"}

\* The requests a client sends: the tool name and its arguments.
ToolCalls ==
    { <<"list_available_apps", Arguments(ABSENT, ABSENT_NUM, ABSENT, ABSENT)>>,
      <<"delete_crashes", Arguments(ABSENT, ABSENT_NUM, ABSENT, ABSENT)>>,
      <<"get_crash_details", Arguments(ABSENT, ABSENT_NUM, ABSENT, ABSENT)>>,
      <<"get_crash_details", Arguments(ABSENT, ABSENT_NUM, "e1", ABSENT)>>,
      <<"analyze_crash_trends", Arguments(ABSENT, ABSENT_NUM, ABSENT, "7d")>>,
      <<"analyze_crash_trends", Arguments(ABSENT, ABSENT_NUM, ABSENT, "1y")>>,
      <<"get_anr_issues", Arguments("com.x", 0, ABSENT, ABSENT)>>,
      <<"get_anr_issues", Arguments("com.x", 51, ABSENT, ABSENT)>> }
    \cup { <<"get_fatal_crashes", Arguments(app, limit, ABSENT, ABSENT)>> :
               app \in {ABSENT, "com.x"}, limit \in {ABSENT_NUM, 50, 1000} }

\* The catch of the handler: an McpError is thrown on, anything else is
\* wrapped as InternalError.
Rethrow(error) == IF error.class = "McpError" THEN error ELSE McpError("InternalError")

InFlight(r) == requests[r].pc \notin {"idle", "done"}

\* The request has failed with this error for this cause.
Failed(request, error, cause) ==
    [request EXCEPT !.pc = "done", !.result = error, !.cause = cause]

\* The request awaits a query of the client.
Querying(request, limit) ==
    [request EXCEPT !.pc = "query", !.queries = @ + 1, !.queryLimit = limit]

\* The switch on request.params.name, and the handler as far as its first
\* await.
Dispatched(request) ==
    LET args == request.arguments IN
    CASE request.name = "list_available_apps" -> Querying(request, ABSENT_NUM)
      [] request.name \in {"get_fatal_crashes", "get_anr_issues"} ->
            IF ~Truthy(args.app_package)
            THEN Failed(request, Rethrow(McpError("InvalidRequest")), "missing_app_package")
            ELSE Querying(request, NumOr(args.limit, 10))
      [] request.name = "get_crash_details" ->
            IF ~Truthy(args.crash_id)
            THEN Failed(request, Rethrow(ZodError), "validation")
            ELSE Querying(request, ABSENT_NUM)
      [] request.name = "analyze_crash_trends" ->
            IF args.time_range \notin TimeRanges
            THEN Failed(request, Rethrow(ZodError), "validation")
            ELSE Querying(request, ABSENT_NUM)
      [] OTHER -> Failed(request, Rethrow(McpError("MethodNotFound")), "unknown_tool")

\* A request arrives and its handler calls initialize(), which returns at
\* once when the client is there, throws when the environment lacks a
\* variable or the key cannot be read, and otherwise makes the client and
\* the processor and awaits the connection test.  The handler does not
\* catch what initialize() throws.
Initialize ==
    \E r \in 1..MaxRequests : \E call \in ToolCalls :
        LET others == {q \in 1..MaxRequests : InFlight(q)}
            arrived == [NoRequest EXCEPT !.name = call[1], !.arguments = call[2],
                                         !.alone = (others = {})]
            after(request) ==
                [q \in 1..MaxRequests |->
                    IF q = r THEN request
                    ELSE IF q \in others THEN [requests[q] EXCEPT !.alone = FALSE]
                    ELSE requests[q]]
        IN  /\ requests[r].pc = "idle"
            /\ \A q \in 1..(r - 1) : requests[q].pc # "idle"
            /\ IF bigQueryClient = "set"
               THEN /\ requests' = after([arrived EXCEPT !.pc = "initialized"])
                    /\ UNCHANGED <<bigQueryClient, crashProcessor, connection>>
               ELSE IF environment # "ok"
               THEN /\ requests' = after(Failed(arrived, PlainError, "initialization"))
                    /\ UNCHANGED <<bigQueryClient, crashProcessor, connection>>
               ELSE /\ bigQueryClient' = "set"
                    /\ crashProcessor' = "set"
                    /\ connection' = [connection EXCEPT !.constructed = @ + 1, !.tests = @ + 1]
                    /\ requests' = after([arrived EXCEPT !.pc = "testing"])
            /\ UNCHANGED environment
            /\ UNCHANGED processorVars

\* testConnection() resolves: true when the test query ran, false when it
\* failed; on false initialize() throws, with the client left in place.
TestConnection ==
    \E r \in 1..MaxRequests : \E isConnected \in BOOLEAN :
        /\ requests[r].pc = "testing"
        /\ IF isConnected
           THEN /\ requests' = [requests EXCEPT ![r].pc = "initialized"]
                /\ connection' = [connection EXCEPT !.passed = TRUE]
           ELSE /\ requests' = [requests EXCEPT ![r] = Failed(@, PlainError, "initialization")]
                /\ UNCHANGED connection
        /\ UNCHANGED <<environment, bigQueryClient, crashProcessor>>
        /\ UNCHANGED processorVars

\* After initialize(): the test of the client and the processor, then the
\* switch.
CallTool ==
    \E r \in 1..MaxRequests :
        LET reached == [requests[r] EXCEPT
                           !.dispatched = IF connection.passed THEN "tested" ELSE "untested",
                           !.duringTest = \E q \in 1..MaxRequests : requests[q].pc = "testing"]
        IN  /\ requests[r].pc = "initialized"
            /\ IF bigQueryClient = "null" \/ crashProcessor = "null"
               THEN requests' = [requests EXCEPT
                                    ![r] = Failed(@, McpError("InternalError"), "initialization")]
               ELSE requests' = [requests EXCEPT ![r] = Dispatched(reached)]
            /\ UNCHANGED <<environment, bigQueryClient, crashProcessor, connection>>
            /\ UNCHANGED processorVars

\* The awaited query settles: with rows, with no row (get_crash_details),
\* or with an error; the processor may raise on the rows (a row without
\* exception_type).  analyze_crash_trends awaits a second round of queries.
QueryReturns ==
    \E r \in 1..MaxRequests : \E settled \in {"rows", "no row", "error", "raises"} :
        LET request == requests[r] IN
        /\ request.pc = "query"
        /\ settled = "no row" => request.name = "get_crash_details"
        /\ settled = "raises" =>
               \/ request.name = "get_crash_details"
               \/ request.name = "analyze_crash_trends" /\ request.queries = 2
        /\ requests' = [requests EXCEPT ![r] =
               CASE settled = "error" -> Failed(request, Rethrow(PlainError), "query_error")
                 [] settled = "no row" ->
                       Failed(request, Rethrow(McpError("InvalidRequest")), "crash_not_found")
                 [] settled = "raises" -> Failed(request, Rethrow(TypeError), "processing")
                 [] OTHER ->
                       IF request.name = "analyze_crash_trends" /\ request.queries = 1
                       THEN Querying(request, ABSENT_NUM)
                       ELSE [request EXCEPT !.pc = "done", !.result = Content]]
        /\ UNCHANGED <<environment, bigQueryClient, crashProcessor, connection>>
        /\ UNCHANGED processorVars

\* The server is constructed; no call is made on a processor of its own.
InitServer ==
    /\ environment \in {"ok", "missing", "bad key"}
    /\ ServerConstructed
    /\ totalUsers = 10000
    /\ op = "" /\ input = <<>> /\ pc = "done" /\ output = <<>> /\ raised = "none"
    /\ crashes = <<>> /\ history = <<>>

NextServer ==
    \/ Initialize
    \/ TestConnection
    \/ CallTool
    \/ QueryReturns

SpecServer == InitServer /\ [][NextServer]_vars

(***************************************************************************)
(* Properties.                                                             *)
(***************************************************************************)
Done == pc = "done"
Aggregated == Done /\ op = "processCrashRows" /\ raised = "none"
Detailed == Done /\ op = "processCrashDetails" /\ raised = "none"
Sorted == Done /\ op = "sortByImpactAndFrequency"
Classified == Done /\ op = "calculateImpactLevel"
Titled == Done /\ op = "generateCrashTitle" /\ raised = "none"

\* The three fields that identify a crash group.
Triple(row) == <<row.exception_type, row.exception_message, row.app_version>>

\* The input row whose crash id a summary carries.
RepIndex(summary) == CHOOSE i \in 1..Len(input) : input[i].crash_id = summary.id

\* The input rows aggregated with row i.
GroupOf(i) == {j \in 1..Len(input) : GroupKey(input[j]) = GroupKey(input[i])}

LevelRank(level) == IF level = "high" THEN 3 ELSE IF level = "medium" THEN 2 ELSE 1

Tied(a, b) == a.impact = b.impact /\ a.occurrences = b.occurrences

\* C1 (as claimed): two rows are in the same crash group iff their exception
\* type, exception message and app version are equal: every summary counts
\* exactly the rows whose three fields equal those of its first row, and
\* there are as many summaries as distinct field triples.
C1_GroupIffFieldsEqual ==
    Aggregated =>
        /\ \A k \in 1..Len(output) :
              output[k].occurrences =
                  Cardinality({j \in 1..Len(input) :
                                  Triple(input[j]) = Triple(input[RepIndex(output[k])])})
        /\ Len(output) = Cardinality({Triple(input[j]) : j \in 1..Len(input)})

\* C2: every summary returned by processCrashRows, and the summary inside
\* every processCrashDetails result, has affected_users <= occurrences.
C2_AffectedAtMostOccurrences ==
    /\ Aggregated =>
          \A k \in 1..Len(output) : output[k].affected_users <= output[k].occurrences
    /\ Detailed =>
          output.crash_summary.affected_users <= output.crash_summary.occurrences

C2_Witness ==
    /\ Aggregated
    /\ \E k \in 1..Len(output) :
          output[k].occurrences = 3 /\ output[k].affected_users = 2

\* C3: a group's occurrences is the number of input rows in the group and its
\* affected_users the number of distinct non-empty user ids among them; two
\* rows with the same key and different user ids give one summary with
\* occurrences = 2 and affected_users = 2.
C3_CountsOfGroup ==
    Aggregated =>
        /\ \A k \in 1..Len(output) :
              LET grp == GroupOf(RepIndex(output[k])) IN
              /\ output[k].occurrences = Cardinality(grp)
              /\ output[k].affected_users =
                     Cardinality({input[j].user_id : j \in grp} \ {"", ABSENT})
        /\ ( /\ Len(input) = 2
             /\ Triple(input[1]) = Triple(input[2])
             /\ Truthy(input[1].user_id) /\ Truthy(input[2].user_id)
             /\ input[1].user_id # input[2].user_id )
           => ( /\ Len(output) = 1
                /\ output[1].occurrences = 2
                /\ output[1].affected_users = 2 )

C3_Witness ==
    /\ Aggregated
    /\ Len(input) = 3 /\ Len(output) = 1
    /\ input[2].user_id = "" /\ input[3].user_id = ABSENT
    /\ output[1].occurrences = 3 /\ output[1].affected_users = 1

\* The level the two threshold ladders give when the percentage of affected
\* users is compared as num / den * 100 (den > 0), or is 0 when den = 0.
LadderLevel(affectedUsers, occurrences, isFatal, num, den) ==
    LET pctOver(k)    == den > 0 /\ num * 100 > k * den
        pctAtLeast(k) == den > 0 /\ num * 100 >= k * den
    IN  IF isFatal
        THEN CASE affectedUsers > 100 \/ pctOver(5) -> "high"
               [] ~(affectedUsers > 100 \/ pctOver(5))
                    /\ (affectedUsers >= 10 \/ pctAtLeast(1)) -> "medium"
               [] OTHER -> "low"
        ELSE CASE affectedUsers > 500 \/ pctOver(10) \/ occurrences > 1000 -> "high"
               [] ~(affectedUsers > 500 \/ pctOver(10) \/ occurrences > 1000)
                    /\ (affectedUsers >= 50 \/ pctAtLeast(2) \/ occurrences >= 100)
                    -> "medium"
               [] OTHER -> "low"

\* C4: with a positive baseline calculateImpactLevel returns the level of the
\* two threshold ladders with pct = affectedUsers / totalUsers * 100; a fatal
\* crash with 150 affected users of 10000 is high.
C4_ThresholdLadders ==
    (Classified /\ totalUsers > 0) =>
        /\ output = LadderLevel(input.affectedUsers, input.occurrences, input.isFatal,
                                input.affectedUsers, totalUsers)
        /\ (input.affectedUsers = 150 /\ input.isFatal /\ totalUsers = 10000)
               => output = "high"

C4_Witness ==
    /\ Classified /\ totalUsers = 100
    /\ input.affectedUsers = 5 /\ input.isFatal
    /\ output = "medium"

\* C5 (as claimed): with a zero or negative baseline the percentage is 0, so
\* the level is decided by the absolute thresholds alone, and nothing is raised.
C5_ZeroBaselineGuarded ==
    (Classified /\ totalUsers <= 0) =>
        /\ output = LadderLevel(input.affectedUsers, input.occurrences, input.isFatal, 0, 0)
        /\ raised = "none"

\* C6 (as claimed): processCrashRows and processCrashDetails return a result
\* for every input and never raise an error to the caller.
C6_NeverRaises ==
    (Done /\ op \in {"processCrashRows", "processCrashDetails"}) => raised = "none"

\* C7: the id, timestamp, app version, platform and is_fatal of a summary are
\* those of the first input row of its group, and its impact is that of the
\* group's two counts and that row's fatal flag.
C7_FirstRowRepresents ==
    Aggregated =>
        \A k \in 1..Len(output) :
            LET i == RepIndex(output[k])
                first == input[i]
            IN  /\ \A j \in GroupOf(i) : i <= j
                /\ output[k].id = first.crash_id
                /\ output[k].timestamp = first.timestamp
                /\ output[k].app_version = first.app_version
                /\ output[k].platform = first.platform
                /\ output[k].is_fatal = first.is_fatal
                /\ output[k].impact =
                       calculateImpactLevel(totalUsers, output[k].affected_users,
                                            output[k].occurrences, first.is_fatal)

C7_Witness ==
    /\ Aggregated
    /\ \E k \in 1..Len(output) :
          \E j \in GroupOf(RepIndex(output[k])) :
              /\ j > RepIndex(output[k])
              /\ input[j].is_fatal # output[k].is_fatal
              /\ input[j].platform # output[k].platform
              /\ calculateImpactLevel(totalUsers, output[k].affected_users,
                                      output[k].occurrences, input[j].is_fatal)
                     # output[k].impact

\* No element is preceded by one of lower impact, nor by one of equal impact
\* with fewer occurrences.
InRankOrder(list) ==
    \A i, j \in 1..Len(list) :
        i < j =>
            \/ LevelRank(list[i].impact) > LevelRank(list[j].impact)
            \/ /\ list[i].impact = list[j].impact
               /\ list[i].occurrences >= list[j].occurrences

\* C8: the sequence returned by processCrashRows and by
\* sortByImpactAndFrequency is ordered by impact, high first, and among equal
\* impacts by occurrence count descending.
C8_OrderedByImpactThenOccurrences ==
    (Aggregated \/ Sorted) => InRankOrder(output)

C8_Witness ==
    /\ Aggregated
    /\ Len(output) = 2
    /\ output[1].id = "e2" /\ output[2].id = "e1"
    /\ output[1].impact = output[2].impact
    /\ output[1].occurrences > output[2].occurrences

\* The elements of a list with a given impact and occurrence count, in order.
TiedWith(list, level, n) ==
    SelectSeq(list, LAMBDA c : c.impact = level /\ c.occurrences = n)

\* C9: summaries of equal impact and equal occurrence count keep their input
\* order; fully tied groups appear in the order of their first rows.
C9_StableSort ==
    /\ Sorted =>
          \A level \in Levels : \A n \in {input[i].occurrences : i \in 1..Len(input)} :
              TiedWith(output, level, n) = TiedWith(input, level, n)
    /\ Aggregated =>
          \A i, j \in 1..Len(output) :
              (i < j /\ Tied(output[i], output[j]))
                  => RepIndex(output[i]) < RepIndex(output[j])

C9_Witness ==
    /\ Sorted
    /\ Len(input) = 3
    /\ Tied(input[1], input[3]) /\ input[1].id # input[3].id
    /\ LevelRank(input[2].impact) < LevelRank(input[1].impact)
    /\ output = <<input[1], input[3], input[2]>>

\* The text after the last '.' of a string, the whole string if it has none.
LastSegment(s) ==
    CHOOSE seg \in {SubSeq(s, i, Len(s)) : i \in 1..(Len(s) + 1)} :
        /\ \A i \in 1..Len(seg) : CharAt(seg, i) # "."
        /\ Len(seg) = Len(s) \/ CharAt(s, Len(s) - Len(seg)) = "."

\* The title made of a short type and a message.
TitleOf(shortType, message) ==
    IF message = ABSENT \/ message = "" THEN shortType
    ELSE IF Len(message) <= 50 THEN shortType \o ": " \o message
    ELSE shortType \o ": " \o SubSeq(message, 1, 47) \o "..."

\* C10 (as claimed): the title is the last dot-segment of the exception type,
\* alone when the message is empty or absent, else followed by ": " and the
\* message, cut to its first 47 characters and "..." when longer than 50.
C10_TitleFromLastSegment ==
    Titled => output = TitleOf(LastSegment(input.exceptionType), input.message)

\* C10 (amended): as claimed, except that the whole exception type stands in
\* for an empty last dot-segment (a type that ends with a dot).
C10_TitleFromLastSegmentOrType ==
    Titled =>
        LET seg == LastSegment(input.exceptionType)
            shortType == IF seg = "" THEN input.exceptionType ELSE seg
            prefix == IF Truthy(input.message) THEN shortType \o ": " ELSE shortType
        IN  /\ output = TitleOf(shortType, input.message)
            /\ Len(output) <= Len(prefix) + 50
            /\ (input.exceptionType = "com.example.FooException" /\ input.message = M60)
                   => output = "FooException: " \o M47 \o "..."

C10_Witness ==
    /\ Titled
    /\ input.exceptionType = "Foo." /\ input.message = M51
    /\ output = "Foo.: " \o M47 \o "..."

Trended == Done /\ op = "processTrendAnalysis"

\* The rate a crashFreeCounts row supplies: its own, or 100 when it has none.
SuppliedRate(row) ==
    IF row.crash_free_rate = ABSENT_NUM THEN Hundred ELSE row.crash_free_rate

\* C11 (as claimed): one CrashTrend per crashFreeCounts row, in order, whose
\* crash-free rate is the row's rate whenever it has one, 0 included, and 100
\* only when the rate is missing.
C11_TrendKeepsSuppliedRate ==
    Trended =>
        /\ Len(output.trends) = Len(input.crashFreeCounts)
        /\ \A i \in 1..Len(output.trends) :
              /\ output.trends[i].date = input.crashFreeCounts[i].date
              /\ output.trends[i].crash_free_rate = SuppliedRate(input.crashFreeCounts[i])

\* C12 (as claimed): crash_free_percentage is the mean of the per-day rates
\* of crashFreeCounts rounded to two decimals, 100 when there are no rows,
\* and within 0..100 when every supplied rate is.
C12_OverallIsMeanOfRates ==
    Trended =>
        LET rows == input.crashFreeCounts
            n == Len(rows)
            sum == SumSeq([i \in 1..n |-> SuppliedRate(rows[i])])
            pct == output.crash_free_percentage
        IN  /\ n = 0 => pct = Hundred
            /\ n > 0 => (2 * pct * n - 2 * sum <= n /\ 2 * sum - 2 * pct * n <= n)
            /\ pct >= 0 /\ pct <= Hundred

\* The grouping key of a statistics row: a missing key counts as "Unknown".
KeyOf(stat) ==
    IF stat.group_key = ABSENT \/ stat.group_key = "" THEN "Unknown" ELSE stat.group_key

\* The count a statistics row adds: none when its count is missing.
RowCount(stat) == IF stat.crash_count = ABSENT_NUM THEN 0 ELSE stat.crash_count

\* The summed count of a grouping key over all statistics rows.
KeySum(key) ==
    SumSeq([i \in 1..Len(input.crashStats) |->
               IF KeyOf(input.crashStats[i]) = key THEN RowCount(input.crashStats[i]) ELSE 0])

GrandTotal == SumSeq([i \in 1..Len(input.crashStats) |-> RowCount(input.crashStats[i])])

InputKeys == {KeyOf(input.crashStats[i]) : i \in 1..Len(input.crashStats)}

PercentageSum ==
    SumSeq([i \in 1..Len(output.most_affected_devices) |->
               output.most_affected_devices[i].percentage])

\* C13 (as claimed): the percentages of the returned device breakdown sum to
\* at most 100.
C13_PercentagesSumAtMost100 ==
    Trended => PercentageSum <= Hundred

\* C13 (amended): the percentages of the returned device breakdown sum to at
\* most 100 plus 0.005 for each returned entry, the most that rounding each
\* percentage to two decimals adds.
C13_PercentagesSumWithinRounding ==
    Trended => 2 * PercentageSum <= 2 * Hundred + Len(output.most_affected_devices)

C13_Witness ==
    /\ Trended
    /\ Len(output.most_affected_devices) = 3
    /\ PercentageSum > Hundred

\* C14: the percentage of each returned entry is its key's summed count over
\* the grand total of all statistics rows, times 100, rounded to two
\* decimals; keys cut off by the truncation stay in the denominator.
C14_PercentageOfGrandTotal ==
    (Trended /\ GrandTotal > 0) =>
        \A i \in 1..Len(output.most_affected_devices) :
            LET entry == output.most_affected_devices[i]
                exact == KeySum(entry.device) * 10000
            IN  /\ 2 * (entry.percentage * GrandTotal - exact) <= GrandTotal
                /\ 2 * (exact - entry.percentage * GrandTotal) <= GrandTotal

C14_Witness ==
    /\ Trended
    /\ Cardinality(InputKeys) > TopN
    /\ Len(output.most_affected_devices) = TopN
    /\ \E key \in InputKeys :
          /\ KeySum(key) > 0
          /\ \A i \in 1..TopN : output.most_affected_devices[i].device # key

\* C15: the device breakdown has at most 10 entries, one per grouping key with
\* that key's summed count, in non-increasing order of count, and no key left
\* out has a larger summed count than a key returned.
C15_TopDevices ==
    Trended =>
        LET devices == output.most_affected_devices IN
        /\ Len(devices) <= 10
        /\ \A i, j \in 1..Len(devices) : i < j =>
              /\ devices[i].device # devices[j].device
              /\ devices[i].crash_count >= devices[j].crash_count
        /\ \A i \in 1..Len(devices) :
              /\ devices[i].device \in InputKeys
              /\ devices[i].crash_count = KeySum(devices[i].device)
        /\ \A key \in InputKeys :
              (\A i \in 1..Len(devices) : devices[i].device # key)
                  => /\ Len(devices) = 10
                     /\ \A i \in 1..Len(devices) : KeySum(key) <= devices[i].crash_count

C15_Witness ==
    /\ Trended
    /\ Cardinality(InputKeys) = 12
    /\ Len(input.crashStats) = 13
    /\ Len(output.most_affected_devices) = 10
    /\ \E i \in 1..10 :
          /\ output.most_affected_devices[i].device = "k1"
          /\ output.most_affected_devices[i].crash_count = 5

\* processCrashDetails has returned or raised.
DetailsCalled == Done /\ op = "processCrashDetails"

\* The text is there and JSON.parse raises on it.
FailsToDecode(text) == Truthy(text) /\ ~JsonParses(text)

\* C16: processCrashDetails never raises a JSON decode error.  When the
\* breadcrumbs text fails to decode, the context's breadcrumbs is the list
\* that holds the raw text alone; when it is absent, the empty list.  When
\* the custom_keys text fails to decode or is absent, the context's
\* custom_keys is the empty mapping.  A field that decodes holds its decoded
\* value whatever happens to the other field.
C16_DecodeFallbacks ==
    /\ DetailsCalled => raised # "SyntaxError"
    /\ Detailed =>
          /\ FailsToDecode(input.breadcrumbs) =>
                output.context.breadcrumbs = JsonValue("array", <<input.breadcrumbs>>)
          /\ input.breadcrumbs = ABSENT => output.context.breadcrumbs = EmptyArray
          /\ (FailsToDecode(input.custom_keys) \/ input.custom_keys = ABSENT) =>
                output.context.custom_keys = EmptyObject
          /\ (Truthy(input.breadcrumbs) /\ JsonParses(input.breadcrumbs)) =>
                output.context.breadcrumbs = JsonParse(input.breadcrumbs)
          /\ (Truthy(input.custom_keys) /\ JsonParses(input.custom_keys)) =>
                output.context.custom_keys = JsonParse(input.custom_keys)

\* Breadcrumbs that fail to decode beside custom keys that decode.
C16_Witness ==
    /\ Detailed
    /\ input.breadcrumbs = "oops"
    /\ input.custom_keys = "{\"k\":\"v\"}"
    /\ output.context.breadcrumbs = JsonValue("array", <<"oops">>)
    /\ output.context.custom_keys = JsonValue("object", <<"k", "v">>)

Formatted == Done /\ op = "formatMemory"

\* The count is at least 1073741824 bytes (1024 MiB).
AtLeastOneGiB(bytes) == bytes.mib >= 1024

\* tenths / 10 is the count in GiB rounded to one decimal: the count differs
\* from tenths * 2^30 / 10 by at most 2^30 / 20 (compared in units of 10 / MiB).
NearestTenthOfGiB(bytes, tenths) ==
    LET over == bytes.mib * 10 - tenths * 1024
    IN  /\ over >= -522 /\ over <= 512
        /\ over * 1048576 + bytes.rest * 10 <= 512 * 1048576
        /\ over * 1048576 + bytes.rest * 10 >= -512 * 1048576

\* n is the count in MiB rounded to no decimals.
NearestMiB(bytes, n) ==
    \/ n = bytes.mib /\ 2 * bytes.rest <= 1048576
    \/ n = bytes.mib + 1 /\ 2 * bytes.rest >= 1048576

\* C17: formatMemory gives "Unknown" for an absent or zero count, "<x>GB"
\* with one decimal exactly for the counts of at least 1073741824, and "<n>MB"
\* with no decimals for the positive counts below; 1073741824 gives "1.0GB"
\* and 524288000 gives "500MB".
C17_FormatMemory ==
    Formatted =>
        /\ (input = NoBytes \/ input = Bytes(0, 0)) <=> output = "Unknown"
        /\ (input # NoBytes /\ AtLeastOneGiB(input)) <=>
              \E whole \in 0..(input.mib \div 1024 + 1), tenth \in 0..9 :
                  /\ output = ToString(whole) \o "." \o ToString(tenth) \o "GB"
                  /\ NearestTenthOfGiB(input, whole * 10 + tenth)
        /\ (input # NoBytes /\ input # Bytes(0, 0) /\ ~AtLeastOneGiB(input)) <=>
              \E n \in 0..1024 :
                  /\ output = ToString(n) \o "MB"
                  /\ NearestMiB(input, n)
        /\ input = Bytes(1024, 0) => output = "1.0GB"
        /\ input = Bytes(500, 0) => output = "500MB"

C17_Witness ==
    /\ Formatted
    /\ input = Bytes(1024, 0)
    /\ output = "1.0GB"

Parsed == Done /\ op = "parseStackTrace"

NoStackTrace == StackTrace("Unknown", "No stack trace available", <<>>)

\* C18: parseStackTrace on an empty or absent text returns exception type
\* "Unknown", message "No stack trace available" and no frames, and raises
\* nothing; processCrashDetails returns that as the stack_trace of such a row.
C18_EmptyTextSentinel ==
    /\ (Parsed /\ input \in {ABSENT, ""}) => (output = NoStackTrace /\ raised = "none")
    /\ (Detailed /\ input.stack_trace \in {ABSENT, ""}) => output.stack_trace = NoStackTrace

\* The empty text has been parsed.
C18_Witness == Parsed /\ input = "" /\ output.message = "No stack trace available"

FixSuggested == Done /\ op = "generateFixSuggestionContext" /\ raised = "none"

\* The advice texts of the table and the generic one.
AdviceTexts ==
    { "Check for null values before accessing object methods or properties",
      "Verify array/list bounds before accessing elements",
      "Validate method parameters before use",
      "Verify object types before casting",
      "Use thread-safe collections or synchronization when modifying collections across threads",
      "Review memory usage, optimize data structures, or increase heap size",
      "Check for infinite recursion or deeply nested method calls",
      "Review the stack trace to identify the root cause" }

\* The places of a text where an advice sentence stands.
AdvicePlaces(text) ==
    { <<i, a>> \in (1..Len(text)) \X AdviceTexts :
          i + Len(a) - 1 <= Len(text) /\ SubSeq(text, i, i + Len(a) - 1) = a }

\* The advice the claim expects: that of the first table key the exception
\* type contains, the generic one when it contains none.
ExpectedAdvice(exceptionType) ==
    IF Includes(exceptionType, "NullPointerException")
    THEN "Check for null values before accessing object methods or properties"
    ELSE IF Includes(exceptionType, "IndexOutOfBoundsException")
    THEN "Verify array/list bounds before accessing elements"
    ELSE IF Includes(exceptionType, "IllegalArgumentException")
    THEN "Validate method parameters before use"
    ELSE IF Includes(exceptionType, "ClassCastException")
    THEN "Verify object types before casting"
    ELSE IF Includes(exceptionType, "ConcurrentModificationException")
    THEN "Use thread-safe collections or synchronization when modifying collections across threads"
    ELSE IF Includes(exceptionType, "OutOfMemoryError")
    THEN "Review memory usage, optimize data structures, or increase heap size"
    ELSE IF Includes(exceptionType, "StackOverflowError")
    THEN "Check for infinite recursion or deeply nested method calls"
    ELSE "Review the stack trace to identify the root cause"

EndsWith(text, tail) ==
    Len(tail) <= Len(text) /\ SubSeq(text, Len(text) - Len(tail) + 1, Len(text)) = tail

\* C19 (as claimed): the fix-suggestion text has exactly one advice sentence,
\* after the thrown-type and message sentences and before the app-version
\* sentence: the advice of the first table key contained in the exception
\* type, or the generic advice when no key is contained.
C19_ExactlyOneAdvice ==
    FixSuggested =>
        LET thrown == "when a " \o input.exceptionType \o " is thrown"
            message == IF input.crashMessage = ABSENT \/ input.crashMessage = "" THEN ""
                       ELSE ". with the message: \"" \o input.crashMessage \o "\""
            version == IF input.appVersion = ABSENT \/ input.appVersion = "" THEN ""
                       ELSE ". This occurs in app version " \o input.appVersion
        IN  /\ Cardinality(AdvicePlaces(output)) = 1
            /\ EndsWith(output, thrown \o message \o ". "
                                    \o ExpectedAdvice(input.exceptionType) \o version \o ".")

\* Calls i and j of the history were the same operation on equal arguments.
SameCall(i, j) ==
    /\ history[i].op = history[j].op
    /\ history[i].input = history[j].input

C22_SortLeavesArgument == Sorted => crashes = input

\* A non-empty text has been parsed.
ParsedText == Parsed /\ Truthy(input)

\* The match of the first of the patterns a, b, c, d that matches the line.
Cascade(line) ==
    IF MatchA(line) # NoMatch THEN MatchA(line)
    ELSE IF MatchB(line) # NoMatch THEN MatchB(line)
    ELSE IF MatchC(line) # NoMatch THEN MatchC(line)
    ELSE MatchD(line)

\* The trimmed non-empty lines after the first that match a pattern, in
\* source order.
FrameLines(text) ==
    LET lines == TrimmedLines(text)
    IN  SelectSeq(SubSeq(lines, 2, Len(lines)), LAMBDA line : Cascade(line) # NoMatch)

\* One frame for each matching line after the first, in source order, built
\* from the first pattern of the cascade that matches; nothing is raised.
FramesFollowCascade ==
    ParsedText =>
        /\ raised = "none"
        /\ Len(output.frames) = Len(FrameLines(input))
        /\ \A i \in 1..Len(output.frames) :
              output.frames[i] = createStackFrame(Cascade(FrameLines(input)[i]))

\* C23 as stated: for a non-empty text the frames follow the cascade, and
\* their number never exceeds the number of non-empty lines minus one.
C23_FramesOfMatchingLines ==
    /\ FramesFollowCascade
    /\ ParsedText => Len(output.frames) <= Len(TrimmedLines(input)) - 1

\* C23 amended: for a non-empty text the frames follow the cascade, and
\* their number never exceeds the number of non-empty lines minus one when
\* the text has a non-empty line (a text of white space alone has no
\* non-empty line and no frame).
C23_FramesOfMatchingLinesAfterFirst ==
    /\ FramesFollowCascade
    /\ (ParsedText /\ TrimmedLines(input) # <<>>) =>
          Len(output.frames) <= Len(TrimmedLines(input)) - 1

\* A native frame and a generic frame are kept, the line that matches no
\* pattern is dropped.
C23_Witness ==
    /\ ParsedText
    /\ Len(TrimmedLines(input)) = 4
    /\ Len(output.frames) = 2
    /\ MatchC(TrimmedLines(input)[2]) # NoMatch
    /\ MatchA(TrimmedLines(input)[3]) = NoMatch /\ MatchD(TrimmedLines(input)[3]) # NoMatch
    /\ Cascade(TrimmedLines(input)[4]) = NoMatch

\* C24: every frame has as class the last dot-separated segment of the
\* qualified name its line matched (the whole name when it has no dot), and
\* as line the integer of the matched line number, 0 when there is none.
C24_ClassIsLastSegment ==
    ParsedText =>
        \A i \in 1..Len(output.frames) :
            LET match == Cascade(FrameLines(input)[i])
            IN  /\ output.frames[i].class = LastSegment(match[1])
                /\ output.frames[i].line =
                      IF Group(match, 4) = ABSENT THEN 0 ELSE DigitsValue(Group(match, 4))

\* The kinds of the decoded values in the context.
IsList(value) == value.kind = "array"
IsMapping(value) == value.kind = "object"

\* C28: for every row, the context of processCrashDetails has a list as
\* breadcrumbs and a mapping as custom_keys, also when the text decodes to a
\* value of another kind.
C28_ContextKinds ==
    Detailed => IsList(output.context.breadcrumbs) /\ IsMapping(output.context.custom_keys)

\* C29: on a positive baseline, a fatal crash is rated at least as severe as
\* a non-fatal crash with the same counts.
C29_FatalAtLeastAsSevere ==
    (Classified /\ totalUsers > 0 /\ input.isFatal) =>
        LevelRank(output) >= LevelRank(calculateImpactLevel(totalUsers, input.affectedUsers,
                                                            input.occurrences, FALSE))

\* C30: the occurrences of the returned summaries sum to the number of input
\* rows, and there are as many summaries as distinct group keys in the input.
C30_EachRowCountedOnce ==
    Aggregated =>
        /\ SumSeq([i \in 1..Len(output) |-> output[i].occurrences]) = Len(input)
        /\ Len(output) = Cardinality({GroupKey(input[i]) : i \in 1..Len(input)})

\* Three rows in two groups.
C30_Witness ==
    /\ Aggregated
    /\ Len(input) = 3
    /\ Len(output) = 2
    /\ \E i \in 1..2 : output[i].occurrences = 2

\* The request has reached the query of its tool.
HasQueried(r) == requests[r].queries > 0

\* C21: the LIMIT that get_fatal_crashes and get_anr_issues pass to their
\* query is between 1 and 50, and is 10 when the caller gives no limit.
C21_LimitWithinBounds ==
    \A r \in 1..MaxRequests :
        (HasQueried(r) /\ requests[r].name \in {"get_fatal_crashes", "get_anr_issues"}) =>
            /\ requests[r].queryLimit >= 1 /\ requests[r].queryLimit <= 50
            /\ requests[r].arguments.limit = ABSENT_NUM => requests[r].queryLimit = 10

\* No request has arrived while another was being handled.
OneAtATime == \A r \in 1..MaxRequests : requests[r].alone

\* C25: when the tool calls come one after the other, a handler issues a
\* query only after an initialize() whose connection test succeeded, and a
\* call that follows a failed initialize() runs the initialization again
\* before it reaches the switch.
C25_QueriesAfterConnectionTest ==
    OneAtATime =>
        \A r \in 1..MaxRequests :
            /\ HasQueried(r) => requests[r].dispatched = "tested"
            /\ requests[r].dispatched # "untested"

\* C26: no request reaches the switch while the initialize() of another
\* awaits the connection test, and the client is constructed and tested at
\* most once.
C26_NoDispatchDuringTest ==
    /\ \A r \in 1..MaxRequests : ~requests[r].duringTest
    /\ connection.constructed <= 1
    /\ connection.tests <= 1

\* The ErrorCode the caller is to see for a failure of this cause.
CodeOf(cause) ==
    CASE cause = "unknown_tool" -> "MethodNotFound"
      [] cause \in {"missing_app_package", "crash_not_found"} -> "InvalidRequest"
      [] OTHER -> "InternalError"

\* C27: every failed request ends with an McpError: MethodNotFound for an
\* unknown tool, InvalidRequest for a missing app_package or an unknown
\* crash id, InternalError for every other failure (query, validation,
\* initialization).
C27_FailuresAreMcpErrors ==
    \A r \in 1..MaxRequests :
        (requests[r].pc = "done" /\ requests[r].result # Content) =>
            requests[r].result = McpError(CodeOf(requests[r].cause))

====
